---- MODULE Spec2Model ----
(***************************************************************************)
(* Model of aviz85/yonatan-jokes, src/crawler.py: JokeCrawler.extract_jokes *)
(* (the sequential-numbering segmentation of a page's paragraphs into the  *)
(* jokes mapping) and JokeCrawler.crawl_all_pages (which runs it page      *)
(* after page on one shared mapping); and src/joke_viewer.py: JokeManager,  *)
(* the store of jokes the viewer rates, tags, deletes and restores.        *)
(*                                                                         *)
(* A text is a sequence of one-character strings; the mapping self.jokes   *)
(* is a function from key texts to joke texts.                             *)
(***************************************************************************)
EXTENDS Integers, Sequences, FiniteSets, TLC

VARIABLES
    jokes,              \* self.jokes
    paragraphs,         \* the texts p.get_text() of content.find_all('p')
    i,                  \* position of the for loop of extract_jokes (1-based)
    first_number,       \* local of extract_jokes
    current_number,     \* local of extract_jokes
    current_joke_text,  \* local of extract_jokes: the lines of the open joke
    pc,                 \* "crawl" | "loop" | "returned" | "raised"
    page,               \* number of page ids crawl_all_pages has handled
    runs,               \* number of extract_jokes calls that reached the loop
    jokes0,             \* history: self.jokes when the current call started
    rerun,              \* history: the call before this one had the same paragraphs
    opened,             \* history: the numbers that opened a joke in this call
    written,            \* history: the keys this call wrote, in order
    manager_jokes,      \* JokeManager.jokes: number -> joke dict
    saved_jokes,        \* the "jokes" of jokes.json as last loaded or saved
    ret,                \* what the last JokeManager call returned or raised
    calls,              \* number of JokeManager calls made
    last,               \* history: the last JokeManager call
    prev,               \* history: the JokeManager call before the last
    tally,              \* history: likes and dislikes applied per number
    confirm_delete,     \* st.session_state["confirm_delete_<number>"]
    asked               \* history: a delete click asked to confirm since the
                        \* joke was last restored or first shown

crawler_vars ==
    <<jokes, paragraphs, i, first_number, current_number,
      current_joke_text, pc, page, runs, jokes0, rerun, opened, written>>

manager_vars ==
    <<manager_jokes, saved_jokes, ret, calls, last, prev, tally,
      confirm_delete, asked>>

vars == <<crawler_vars, manager_vars>>

----------------------------------------------------------------------------
(* Bounds of the model *)

MaxParas == 3
MaxNum == 3
MaxPages == 2
MaxPageParas == 2
MaxCalls == 3

----------------------------------------------------------------------------
(* Python values *)

None == -1

\* Python truth value of an Optional[int]: None and 0 are false
Truthy(n) == n # None /\ n # 0

Digits == <<"0", "1", "2", "3", "4", "5", "6", "7", "8", "9">>

IsDigit(c) == c \in {"0", "1", "2", "3", "4", "5", "6", "7", "8", "9"}

IsSpace(c) == c \in {" ", "\n", "\t"}

DigitVal(c) == CHOOSE d \in 0..9 : Digits[d + 1] = c

RECURSIVE str(_)
\* str(n) of an int: its decimal digits, most significant first
str(n) ==
    IF n < 0 THEN <<"-">> \o str(-n)
    ELSE IF n < 10 THEN <<Digits[n + 1]>>
    ELSE str(n \div 10) \o <<Digits[(n % 10) + 1]>>

RECURSIVE int(_)
\* int(s) of a non-empty run of decimal digits
int(ds) ==
    IF ds = <<>> THEN 0
    ELSE int(SubSeq(ds, 1, Len(ds) - 1)) * 10 + DigitVal(ds[Len(ds)])

RECURSIVE lstrip(_)
lstrip(t) == IF t # <<>> /\ IsSpace(Head(t)) THEN lstrip(Tail(t)) ELSE t

RECURSIVE rstrip(_)
rstrip(t) ==
    IF t # <<>> /\ IsSpace(t[Len(t)])
    THEN rstrip(SubSeq(t, 1, Len(t) - 1))
    ELSE t

\* str.strip()
strip(t) == rstrip(lstrip(t))

RECURSIVE TakeDigits(_)
\* the longest prefix matching \d*
TakeDigits(t) ==
    IF t # <<>> /\ IsDigit(Head(t)) THEN <<Head(t)>> \o TakeDigits(Tail(t))
    ELSE <<>>

RECURSIVE TakeLine(_)
\* the longest prefix matching .* (the dot matches no newline)
TakeLine(t) ==
    IF t # <<>> /\ Head(t) # "\n" THEN <<Head(t)>> \o TakeLine(Tail(t))
    ELSE <<>>

\* re.match(r'^\s*(\d+)\s*(.*)', text): every quantifier is greedy and none
\* ever has to give back, so the groups are read off left to right
re_match(text) ==
    LET t1 == lstrip(text)
        g1 == TakeDigits(t1)
        t2 == lstrip(SubSeq(t1, Len(g1) + 1, Len(t1)))
    IN  [matched |-> g1 # <<>>, group1 |-> g1, group2 |-> TakeLine(t2)]

RECURSIVE JoinWithSpace(_)
\* mutant: ' '.join(lines)
JoinWithSpace(lines) ==
    IF lines = <<>> THEN <<>>
    ELSE IF Len(lines) = 1 THEN lines[1]
    ELSE lines[1] \o <<" ">> \o JoinWithSpace(Tail(lines))

RECURSIVE join(_)
\* '\n'.join(lines)
join(lines) ==
    IF lines = <<>> THEN <<>>
    ELSE IF Len(lines) = 1 THEN lines[1]
    ELSE lines[1] \o <<"\n">> \o join(Tail(lines))

\* the empty dict
EmptyJokes == [k \in {} |-> <<>>]

\* d[k] = v on a dict
SetItem(d, k, v) == [x \in DOMAIN d \cup {k} |-> IF x = k THEN v ELSE d[x]]

----------------------------------------------------------------------------
(* extract_jokes: the body of the for loop, on a record of the locals and   *)
(* self.jokes; raised is set where Python raises (None - 1 is a TypeError) *)

\* mutant: the numbers are kept from one call to the next
StartLocalsKeptNumbers(js) ==
    [first_number |-> first_number, current_number |-> current_number,
     current_joke_text |-> <<>>, jokes |-> js, raised |-> FALSE,
     opened |-> <<>>, written |-> <<>>]

\* mutant: current_number starts at 1 instead of None
StartLocalsFromOne(js) ==
    [first_number |-> None, current_number |-> 1,
     current_joke_text |-> <<>>, jokes |-> js, raised |-> FALSE,
     opened |-> <<>>, written |-> <<>>]

StartLocals(js) ==
    [first_number |-> None, current_number |-> None,
     current_joke_text |-> <<>>, jokes |-> js, raised |-> FALSE,
     opened |-> <<>>, written |-> <<>>]

\* mutant: the write rebinds self.jokes to a dict of this joke alone
WriteJokeAlone(s) ==
    IF s.current_number = None THEN [s EXCEPT !.raised = TRUE]
    ELSE [s EXCEPT !.jokes = SetItem(EmptyJokes, str(s.current_number - 1),
                                     join(s.current_joke_text)),
                   !.written = Append(@, str(s.current_number - 1))]

\* mutant: a key that is present keeps its text (setdefault)
WriteJokeKeepsFirst(s) ==
    IF s.current_number = None THEN [s EXCEPT !.raised = TRUE]
    ELSE IF str(s.current_number - 1) \in DOMAIN s.jokes THEN s
    ELSE [s EXCEPT !.jokes = SetItem(@, str(s.current_number - 1),
                                     join(s.current_joke_text)),
                   !.written = Append(@, str(s.current_number - 1))]

\* mutant: the joke is stored under the number being opened
WriteJokeUnderCurrent(s) ==
    IF s.current_number = None THEN [s EXCEPT !.raised = TRUE]
    ELSE [s EXCEPT !.jokes = SetItem(@, str(s.current_number),
                                     join(s.current_joke_text)),
                   !.written = Append(@, str(s.current_number))]

\* self.jokes[str(current_number-1)] = '\n'.join(current_joke_text)
WriteJoke(s) ==
    IF s.current_number = None THEN [s EXCEPT !.raised = TRUE]
    ELSE [s EXCEPT !.jokes = SetItem(@, str(s.current_number - 1),
                                     join(s.current_joke_text)),
                   !.written = Append(@, str(s.current_number - 1))]

\* mutant: the empty line is kept whether or not a joke is open
BlankParagraphAlways(s) ==
    [s EXCEPT !.current_joke_text = Append(@, <<>>)]

\* a paragraph whose stripped text is empty
BlankParagraph(s) ==
    IF Truthy(s.current_number) /\ s.current_joke_text # <<>>
    THEN [s EXCEPT !.current_joke_text = Append(@, <<>>)]
    ELSE s

\* mutant: a number off the sequence contributes group 2 only
NumberedParagraphAppendsRest(s, number, rest, text) ==
    LET s1 == IF s.first_number = None
              THEN [s EXCEPT !.first_number = number,
                             !.current_number = number]
              ELSE s
    IN  IF number = s1.current_number
        THEN LET s2 == IF s1.current_joke_text # <<>>
                       THEN [WriteJoke(s1) EXCEPT !.current_joke_text = <<>>]
                       ELSE s1
             IN  IF s2.raised THEN s2
                 ELSE [s2 EXCEPT !.current_number = number + 1,
                                 !.current_joke_text = <<rest>>,
                                 !.opened = Append(@, number)]
        ELSE [s1 EXCEPT !.current_joke_text = Append(@, rest)]

\* mutant: the first number is not recorded
NumberedParagraphNoFirst(s, number, rest, text) ==
    IF number = s.current_number
    THEN LET s2 == IF s.current_joke_text # <<>>
                   THEN [WriteJoke(s) EXCEPT !.current_joke_text = <<>>]
                   ELSE s
         IN  IF s2.raised THEN s2
             ELSE [s2 EXCEPT !.current_number = number + 1,
                             !.current_joke_text = <<rest>>,
                             !.opened = Append(@, number)]
    ELSE [s EXCEPT !.current_joke_text = Append(@, text)]

\* mutant: every numbered paragraph records its number as the first
NumberedParagraphResetsFirst(s, number, rest, text) ==
    LET s1 == [s EXCEPT !.first_number = number, !.current_number = number]
    IN  IF number = s1.current_number
        THEN LET s2 == IF s1.current_joke_text # <<>>
                       THEN [WriteJoke(s1) EXCEPT !.current_joke_text = <<>>]
                       ELSE s1
             IN  IF s2.raised THEN s2
                 ELSE [s2 EXCEPT !.current_number = number + 1,
                                 !.current_joke_text = <<rest>>,
                                 !.opened = Append(@, number)]
        ELSE [s1 EXCEPT !.current_joke_text = Append(@, text)]

\* mutant: the number after the next is expected
NumberedParagraphSkipsOne(s, number, rest, text) ==
    LET s1 == IF s.first_number = None
              THEN [s EXCEPT !.first_number = number,
                             !.current_number = number]
              ELSE s
    IN  IF number = s1.current_number
        THEN LET s2 == IF s1.current_joke_text # <<>>
                       THEN [WriteJoke(s1) EXCEPT !.current_joke_text = <<>>]
                       ELSE s1
             IN  IF s2.raised THEN s2
                 ELSE [s2 EXCEPT !.current_number = number + 2,
                                 !.current_joke_text = <<rest>>,
                                 !.opened = Append(@, number)]
        ELSE [s1 EXCEPT !.current_joke_text = Append(@, text)]

\* mutant: an entry whose first line is empty is opened with no line at all
NumberedParagraphDropsEmptyRest(s, number, rest, text) ==
    LET s1 == IF s.first_number = None
              THEN [s EXCEPT !.first_number = number,
                             !.current_number = number]
              ELSE s
    IN  IF number = s1.current_number
        THEN LET s2 == IF s1.current_joke_text # <<>>
                       THEN [WriteJoke(s1) EXCEPT !.current_joke_text = <<>>]
                       ELSE s1
             IN  IF s2.raised THEN s2
                 ELSE [s2 EXCEPT !.current_number = number + 1,
                                 !.current_joke_text =
                                     IF rest = <<>> THEN <<>> ELSE <<rest>>,
                                 !.opened = Append(@, number)]
        ELSE [s1 EXCEPT !.current_joke_text = Append(@, text)]

\* a paragraph the pattern matches: number = int(group 1), rest = group 2
\* stripped, text = the whole stripped paragraph
NumberedParagraph(s, number, rest, text) ==
    LET s1 == IF s.first_number = None
              THEN [s EXCEPT !.first_number = number,
                             !.current_number = number]
              ELSE s
    IN  IF number = s1.current_number
        THEN LET s2 == IF s1.current_joke_text # <<>>
                       THEN [WriteJoke(s1) EXCEPT !.current_joke_text = <<>>]
                       ELSE s1
             IN  IF s2.raised THEN s2
                 ELSE [s2 EXCEPT !.current_number = number + 1,
                                 !.current_joke_text = <<rest>>,
                                 !.opened = Append(@, number)]
        ELSE [s1 EXCEPT !.current_joke_text = Append(@, text)]

\* mutant: the line is kept whether or not a joke is open
PlainParagraphAlways(s, text) ==
    [s EXCEPT !.current_joke_text = Append(@, text)]

\* a non-blank paragraph the pattern does not match
PlainParagraph(s, text) ==
    IF Truthy(s.current_number)
    THEN [s EXCEPT !.current_joke_text = Append(@, text)]
    ELSE s

\* one iteration of the for loop on paragraph text p
LoopBody(s, p) ==
    LET text == strip(p)
        match == re_match(text)
    IN  IF text = <<>> THEN BlankParagraph(s)
        ELSE IF match.matched
             THEN NumberedParagraph(s, int(match.group1),
                                    strip(match.group2), text)
             ELSE PlainParagraph(s, text)

\* mutant: the joke open at the end of the paragraphs is not written
SaveLastJokeSkipped(s) == s

\* "Save last joke", after the loop
SaveLastJoke(s) == IF s.current_joke_text # <<>> THEN WriteJoke(s) ELSE s

RECURSIVE Loop(_, _)
\* the whole for loop over ps; an exception ends it
Loop(s, ps) ==
    IF ps = <<>> \/ s.raised THEN s
    ELSE Loop(LoopBody(s, Head(ps)), Tail(ps))

\* a whole call of extract_jokes on a page with paragraphs ps, self.jokes
\* being js when it starts: the record at its end
extract_jokes(js, ps) ==
    LET s == Loop(StartLocals(js), ps)
    IN  IF s.raised THEN s ELSE SaveLastJoke(s)

----------------------------------------------------------------------------
(* Inputs *)

SeqsUpTo(S, n) == UNION {[1..k -> S] : k \in 0..n}

Rests == {<<"a">>, <<"b">>}

\* the paragraph "n rest"
NumberedText(n, rest) == str(n) \o <<" ">> \o rest

\* paragraph texts of a single call: blank, unnumbered, a number alone,
\* a leading zero inside surrounding whitespace and with no gap, a second
\* line, a two-digit number, zero, and "n rest" for each n up to MaxNum
Texts ==
    {<<>>, <<"a">>, <<"2">>, <<" ", "0", "1", "b", " ">>,
     <<"1", " ", "a", "\n", "b">>, <<"1", "0", " ", "b">>, <<"0", " ", "a">>}
    \cup {NumberedText(n, r) : n \in 1..MaxNum, r \in Rests}

\* paragraph texts of the pages of a crawl: unnumbered, two texts for
\* number 1 and one for number 2
PageTexts ==
    {<<"a">>, NumberedText(1, <<"a">>), NumberedText(1, <<"b">>),
     NumberedText(2, <<"a">>)}

\* paragraph texts of a short page: those of a crawl and the blank one
ShortTexts == {<<>>, <<"a">>, <<"1", "a">>, <<"1", "b">>, <<"2", "a">>}

----------------------------------------------------------------------------
(* Actions *)

Locals ==
    [first_number |-> first_number, current_number |-> current_number,
     current_joke_text |-> current_joke_text, jokes |-> jokes,
     raised |-> FALSE, opened |-> opened, written |-> written]

SetLocals(s) ==
    /\ first_number' = s.first_number
    /\ current_number' = s.current_number
    /\ current_joke_text' = s.current_joke_text
    /\ jokes' = s.jokes
    /\ opened' = s.opened
    /\ written' = s.written

\* mutant: the loop does not move on to the next paragraph
ProcessParagraphStays ==
    /\ pc = "loop"
    /\ i <= Len(paragraphs)
    /\ \E s \in {LoopBody(Locals, paragraphs[i])} :
         /\ SetLocals(s)
         /\ pc' = IF s.raised THEN "raised" ELSE "loop"
    /\ i' = i
    /\ UNCHANGED <<paragraphs, page, runs, jokes0, rerun>>
    /\ UNCHANGED manager_vars

\* crawler.py 29-63: one iteration of the for loop
ProcessParagraph ==
    /\ pc = "loop"
    /\ i <= Len(paragraphs)
    /\ \E s \in {LoopBody(Locals, paragraphs[i])} :
         /\ SetLocals(s)
         /\ pc' = IF s.raised THEN "raised" ELSE "loop"
    /\ i' = i + 1
    /\ UNCHANGED <<paragraphs, page, runs, jokes0, rerun>>
    /\ UNCHANGED manager_vars

\* crawler.py 65-67: the loop is over; save the last joke and return
FinishPage ==
    /\ pc = "loop"
    /\ i > Len(paragraphs)
    /\ \E s \in {SaveLastJoke(Locals)} :
         /\ SetLocals(s)
         /\ pc' = IF s.raised THEN "raised" ELSE "returned"
    /\ UNCHANGED <<paragraphs, i, page, runs, jokes0, rerun>>
    /\ UNCHANGED manager_vars

\* crawl_all_pages is at the top of its loop with a page id left
AtNextPage == pc \in {"crawl", "returned", "raised"} /\ page < MaxPages

\* mutant: a page that cannot be fetched ends the crawl
FetchFailedStops ==
    /\ AtNextPage
    /\ page' = page + 1
    /\ pc' = "stopped"
    /\ UNCHANGED <<jokes, paragraphs, i, first_number, current_number,
                   current_joke_text, runs, jokes0, rerun, opened, written>>
    /\ UNCHANGED manager_vars

\* crawler.py 69-80: the response is not 200, or requests.get raised
FetchFailed ==
    /\ AtNextPage
    /\ page' = page + 1
    /\ pc' = "crawl"
    /\ UNCHANGED <<jokes, paragraphs, i, first_number, current_number,
                   current_joke_text, runs, jokes0, rerun, opened, written>>
    /\ UNCHANGED manager_vars

\* crawler.py 12-16: the page has no maintext-prose-body div
ExtractNoContent ==
    /\ AtNextPage
    /\ page' = page + 1
    /\ pc' = "crawl"
    /\ UNCHANGED <<jokes, paragraphs, i, first_number, current_number,
                   current_joke_text, runs, jokes0, rerun, opened, written>>
    /\ UNCHANGED manager_vars

\* crawler.py 12-27: the page has the div; its paragraphs are found and the
\* locals are created
ExtractBegin ==
    /\ AtNextPage
    /\ page' = page + 1
    /\ \E ps \in SeqsUpTo(PageTexts, MaxPageParas) :
         /\ paragraphs' = ps
         /\ rerun' = (runs > 0 /\ ps = paragraphs)
    /\ jokes0' = jokes
    /\ SetLocals(StartLocals(jokes))
    /\ i' = 1
    /\ runs' = runs + 1
    /\ pc' = "loop"
    /\ UNCHANGED manager_vars

----------------------------------------------------------------------------
(* JokeManager: a joke is a dict, here a function from its keys to their    *)
(* values; a call is an operator from self.jokes to the record of the dict *)
(* it leaves, what it returns ("KeyError" where d[key] raises) and whether *)
(* it called save_jokes                                                    *)

Numbers == {"1", "2"}

Tags == {"x", "y"}

\* d.get(key, default)
Get(d, key, default) == IF key \in DOMAIN d THEN d[key] ELSE default

\* tag in tags
InList(tags, tag) == \E j \in 1..Len(tags) : tags[j] = tag

\* tags.remove(tag): the first occurrence goes
ListRemove(tags, tag) ==
    LET j == CHOOSE x \in 1..Len(tags) :
                 tags[x] = tag /\ \A y \in 1..(x - 1) : tags[y] # tag
    IN  SubSeq(tags, 1, j - 1) \o SubSeq(tags, j + 1, Len(tags))

Returns(js, r, save) == [jokes |-> js, ret |-> r, save |-> save]

\* the dict get_joke_versions creates for an unknown number
NewJoke == [original |-> "", versions |-> <<>>, status |-> "pending",
            rating |-> 0]

get_joke_versions(js, number) ==
    IF number \notin DOMAIN js
    THEN Returns(SetItem(js, number, NewJoke), "joke", FALSE)
    ELSE Returns(js, "joke", FALSE)

\* the dict add_version appends; the timestamp is the time of the call
NewVersion(version) ==
    [text |-> version, type |-> "simple_hebrew", timestamp |-> "now"]

add_version(js, number, version) ==
    IF number \notin DOMAIN js THEN Returns(js, "False", FALSE)
    ELSE IF "versions" \notin DOMAIN js[number]
    THEN Returns(js, "KeyError", FALSE)
    ELSE Returns(SetItem(js, number,
                         SetItem(js[number], "versions",
                                 Append(js[number]["versions"],
                                        NewVersion(version)))),
                 "True", TRUE)

\* mutant: the joke is taken out of the store
mark_as_deleted_removing(js, number) ==
    IF number \in DOMAIN js
    THEN Returns([m \in DOMAIN js \ {number} |-> js[m]], "True", TRUE)
    ELSE Returns(js, "False", FALSE)

mark_as_deleted(js, number) ==
    IF number \in DOMAIN js
    THEN Returns(SetItem(js, number, SetItem(js[number], "status", "deleted")),
                 "True", TRUE)
    ELSE Returns(js, "False", FALSE)

restore_joke(js, number) ==
    IF number \notin DOMAIN js THEN Returns(js, "False", FALSE)
    ELSE IF "status" \notin DOMAIN js[number]
    THEN Returns(js, "KeyError", FALSE)
    ELSE IF js[number]["status"] = "deleted"
    THEN Returns(SetItem(js, number, SetItem(js[number], "status", "pending")),
                 "True", TRUE)
    ELSE Returns(js, "False", FALSE)

\* mutant: the rating the joke already has is not read
update_rating_from_zero(js, number, is_like) ==
    IF number \in DOMAIN js
    THEN LET new == IF is_like THEN 1 ELSE -1
         IN  Returns(SetItem(js, number, SetItem(js[number], "rating", new)),
                     "True", TRUE)
    ELSE Returns(js, "False", FALSE)

update_rating(js, number, is_like) ==
    IF number \in DOMAIN js
    THEN LET rating == Get(js[number], "rating", 0)
             new == IF is_like THEN rating + 1 ELSE rating - 1
         IN  Returns(SetItem(js, number, SetItem(js[number], "rating", new)),
                     "True", TRUE)
    ELSE Returns(js, "False", FALSE)

add_tag(js, number, tag) ==
    IF number \notin DOMAIN js THEN Returns(js, "False", FALSE)
    ELSE IF "tags" \notin DOMAIN js[number]
    THEN Returns(js, "KeyError", FALSE)
    ELSE IF ~InList(js[number]["tags"], tag)
    THEN Returns(SetItem(js, number,
                         SetItem(js[number], "tags",
                                 Append(js[number]["tags"], tag))),
                 "True", TRUE)
    ELSE Returns(js, "False", FALSE)

remove_tag(js, number, tag) ==
    IF number \notin DOMAIN js THEN Returns(js, "False", FALSE)
    ELSE IF "tags" \notin DOMAIN js[number]
    THEN Returns(js, "KeyError", FALSE)
    ELSE IF InList(js[number]["tags"], tag)
    THEN Returns(SetItem(js, number,
                         SetItem(js[number], "tags",
                                 ListRemove(js[number]["tags"], tag))),
                 "True", TRUE)
    ELSE Returns(js, "False", FALSE)

\* jokes of jokes.json: one with every key, one translated and tagged, one
\* with neither status nor rating nor tags (the keys the code reads with .get)
StoredJokes ==
    {[original |-> "p", versions |-> <<>>, status |-> "pending",
      rating |-> 0, tags |-> <<>>],
     [original |-> "c", versions |-> <<>>, status |-> "completed",
      rating |-> 0, tags |-> <<"x">>],
     [original |-> "o", versions |-> <<>>]}

\* the stores jokes.json can hold
StoredStores == UNION {[S -> StoredJokes] : S \in SUBSET Numbers}

\* no joke: the number is not in the store
NoJoke == [absent |-> TRUE]

JokeOf(js, number) == IF number \in DOMAIN js THEN js[number] ELSE NoJoke

NoCall == [op |-> "none", number |-> "", arg |-> "", before |-> NoJoke]

\* st.session_state.get("confirm_delete_<number>", False) of a new session
NoFlags == [n \in Numbers |-> FALSE]

NoTally == [n \in Numbers |-> [likes |-> 0, dislikes |-> 0]]

\* a script run may call the manager: it has calls left and nothing raised
CanCall == calls < MaxCalls /\ ret # "KeyError"

\* the call op(number, arg) ends as r
Call(op, number, arg, r) ==
    /\ CanCall
    /\ manager_jokes' = r.jokes
    /\ saved_jokes' = IF r.save THEN r.jokes ELSE saved_jokes
    /\ ret' = r.ret
    /\ calls' = calls + 1
    /\ prev' = last
    /\ last' = [op |-> op, number |-> number, arg |-> arg,
                before |-> JokeOf(manager_jokes, number)]
    /\ tally' =
         IF op = "update_rating" /\ r.ret = "True"
         THEN [tally EXCEPT ![number] =
                 IF arg = "like" THEN [@ EXCEPT !.likes = @ + 1]
                 ELSE [@ EXCEPT !.dislikes = @ + 1]]
         ELSE tally
    /\ confirm_delete' = confirm_delete
    /\ asked' =
         IF op = "restore_joke" /\ r.ret = "True"
         THEN [asked EXCEPT ![number] = FALSE]
         ELSE asked
    /\ UNCHANGED crawler_vars

GetJokeVersions(n) ==
    Call("get_joke_versions", n, "", get_joke_versions(manager_jokes, n))

AddVersion(n) == Call("add_version", n, "v", add_version(manager_jokes, n, "v"))

MarkAsDeleted(n) ==
    Call("mark_as_deleted", n, "", mark_as_deleted(manager_jokes, n))

RestoreJoke(n) ==
    Call("restore_joke", n, "", restore_joke(manager_jokes, n))

UpdateRating(n, like) ==
    Call("update_rating", n, like,
         update_rating(manager_jokes, n, like = "like"))

AddTag(n, t) == Call("add_tag", n, t, add_tag(manager_jokes, n, t))

RemoveTag(n, t) == Call("remove_tag", n, t, remove_tag(manager_jokes, n, t))

\* joke_viewer.py 263-272: a click on the delete button of a joke that is
\* shown as not deleted, in a script run that has loaded jokes.json; the
\* first branch ends in st.rerun()
ClickDelete(n) ==
    /\ manager_jokes = saved_jokes
    /\ n \in DOMAIN manager_jokes
    /\ Get(manager_jokes[n], "status", "None") # "deleted"
    /\ IF confirm_delete[n]
       THEN Call("click_delete", n, "", mark_as_deleted(manager_jokes, n))
       ELSE /\ confirm_delete' = [confirm_delete EXCEPT ![n] = TRUE]
            /\ asked' = [asked EXCEPT ![n] = TRUE]
            /\ UNCHANGED <<manager_jokes, saved_jokes, ret, calls, last,
                           prev, tally>>
            /\ UNCHANGED crawler_vars

\* joke_viewer.py 596-599: a click on the restore button of a joke the
\* recycle bin lists, in a script run that has loaded jokes.json
ClickRestore(n) ==
    /\ manager_jokes = saved_jokes
    /\ n \in DOMAIN manager_jokes
    /\ Get(manager_jokes[n], "status", "None") = "deleted"
    /\ Call("restore_joke", n, "", restore_joke(manager_jokes, n))

\* joke_viewer.py 388: a new script run builds a JokeManager from jokes.json
Reload ==
    /\ manager_jokes' = saved_jokes
    /\ ret' = "None"
    /\ UNCHANGED <<saved_jokes, calls, last, prev, tally, confirm_delete,
                   asked>>
    /\ UNCHANGED crawler_vars

----------------------------------------------------------------------------
(* Specifications *)

\* no JokeManager is at work
ManagerIdle ==
    /\ manager_jokes = EmptyJokes
    /\ saved_jokes = EmptyJokes
    /\ ret = "None"
    /\ calls = 0
    /\ last = NoCall
    /\ prev = NoCall
    /\ tally = NoTally
    /\ confirm_delete = NoFlags
    /\ asked = NoFlags

\* no JokeCrawler is at work
CrawlerIdle ==
    /\ paragraphs = <<>>
    /\ jokes = EmptyJokes
    /\ jokes0 = EmptyJokes
    /\ first_number = None
    /\ current_number = None
    /\ current_joke_text = <<>>
    /\ i = 1
    /\ pc = "crawl"
    /\ page = 0
    /\ runs = 0
    /\ rerun = FALSE
    /\ opened = <<>>
    /\ written = <<>>

\* extract_jokes has just created its locals, on a fresh JokeCrawler
CallStarted ==
    /\ jokes = EmptyJokes
    /\ jokes0 = EmptyJokes
    /\ first_number = StartLocals(EmptyJokes).first_number
    /\ current_number = StartLocals(EmptyJokes).current_number
    /\ current_joke_text = StartLocals(EmptyJokes).current_joke_text
    /\ i = 1
    /\ pc = "loop"
    /\ page = 1
    /\ runs = 1
    /\ rerun = FALSE
    /\ opened = <<>>
    /\ written = <<>>
    /\ ManagerIdle

\* one call of extract_jokes on a fresh JokeCrawler
Init == paragraphs \in SeqsUpTo(Texts, MaxParas) /\ CallStarted

Next == ProcessParagraph \/ FinishPage

Spec == Init /\ [][Next]_vars

\* one call on a short page
InitShort == paragraphs \in SeqsUpTo(ShortTexts, MaxPageParas) /\ CallStarted

\* the call runs on: a Python for loop takes its next step while it has one
SpecFair == InitShort /\ [][Next]_vars /\ WF_vars(Next)

\* crawl_all_pages on a fresh JokeCrawler
InitCrawl ==
    /\ paragraphs = <<>>
    /\ jokes = EmptyJokes
    /\ jokes0 = EmptyJokes
    /\ first_number = None
    /\ current_number = None
    /\ current_joke_text = <<>>
    /\ i = 1
    /\ pc = "crawl"
    /\ page = 0
    /\ runs = 0
    /\ rerun = FALSE
    /\ opened = <<>>
    /\ written = <<>>
    /\ ManagerIdle

NextCrawl ==
    \/ FetchFailed
    \/ ExtractNoContent
    \/ ExtractBegin
    \/ ProcessParagraph
    \/ FinishPage

SpecCrawl == InitCrawl /\ [][NextCrawl]_vars

\* the viewer's script runs on a jokes.json
InitManager ==
    /\ CrawlerIdle
    /\ manager_jokes \in StoredStores
    /\ saved_jokes = manager_jokes
    /\ ret = "None"
    /\ calls = 0
    /\ last = NoCall
    /\ prev = NoCall
    /\ tally = NoTally
    /\ confirm_delete = NoFlags
    /\ asked = NoFlags

NextManager ==
    \/ \E n \in Numbers : GetJokeVersions(n)
    \/ \E n \in Numbers : AddVersion(n)
    \/ \E n \in Numbers : MarkAsDeleted(n)
    \/ \E n \in Numbers : RestoreJoke(n)
    \/ \E n \in Numbers : \E like \in {"like", "dislike"} : UpdateRating(n, like)
    \/ \E n \in Numbers : \E t \in Tags : AddTag(n, t)
    \/ \E n \in Numbers : \E t \in Tags : RemoveTag(n, t)
    \/ Reload

SpecManager == InitManager /\ [][NextManager]_vars

\* one browser session of the viewer: delete and restore clicks, each in a
\* script run of its own
NextSession ==
    \/ \E n \in Numbers : ClickDelete(n)
    \/ \E n \in Numbers : ClickRestore(n)
    \/ Reload

SpecSession == InitManager /\ [][NextSession]_vars

----------------------------------------------------------------------------
(* Properties of one call on a fresh mapping (Spec) *)

Processing == pc = "loop" /\ i <= Len(paragraphs)

Returned == pc = "returned"

\* paragraph p is "n rest" for one of the rests
IsNumberedText(p, n) == \E r \in Rests : p = NumberedText(n, r)

RestOf(p, n) == CHOOSE r \in Rests : p = NumberedText(n, r)

\* the paragraphs are "k rest_1", "k+1 rest_2", ...
ConsecutiveFrom(k) ==
    /\ paragraphs # <<>>
    /\ \A j \in 1..Len(paragraphs) : IsNumberedText(paragraphs[j], k + j - 1)

\* the mapping {str(k+j-1) -> rest_j : 1 <= j <= m}
ConsecutiveOutput(k, m) ==
    [key \in {str(k + j - 1) : j \in 1..m} |->
        LET j == CHOOSE x \in 1..m : str(k + x - 1) = key
        IN  RestOf(paragraphs[j], k + j - 1)]

P1Input == << <<"1", " ", "a">>, <<"2", " ", "b">>, <<"3", " ", "a">> >>

P1Output == <<"1">> :> <<"a">> @@ <<"2">> :> <<"b">> @@ <<"3">> :> <<"a">>

\* C1: on a fresh mapping, an input made only of paragraphs "k rest_k",
\* "k+1 rest_(k+1)", ..., "m rest_m" yields exactly {str(n) -> rest_n}: after
\* j of them the entries k..k+j-2 are written and entry k+j-1 is the open
\* one, and the last entry is written by the flush that follows the loop.
C1_ConsecutiveNumbers ==
    /\ \A k \in 0..10 :
         ConsecutiveFrom(k) =>
            /\ pc = "loop" =>
                  /\ jokes = ConsecutiveOutput(k, i - 2)
                  /\ i > 1 => current_joke_text =
                                 <<RestOf(paragraphs[i - 1], k + i - 2)>>
            /\ Returned => jokes = ConsecutiveOutput(k, Len(paragraphs))
    /\ paragraphs = P1Input /\ Returned => jokes = P1Output

C1_Witness ==
    /\ Returned
    /\ paragraphs = P1Input
    /\ DOMAIN jokes = {<<"1">>, <<"2">>, <<"3">>}

\* the stripped text of the paragraph the loop is at
CurText == strip(paragraphs[i])

\* that text begins with a decimal digit
LeadsWithNumber(t) == t # <<>> /\ IsDigit(Head(t))

\* the number its leading digits spell
LeadingNumber(t) == int(TakeDigits(t))

EntryOpen == current_joke_text # <<>>

P4Input == << <<"1", " ", "a">>, <<"1", "0", " ", "b">>, <<"2", " ", "b">> >>

P4Output ==
    <<"1">> :> <<"a", "\n", "1", "0", " ", "b">> @@ <<"2">> :> <<"b">>

\* C2: a non-blank paragraph whose leading number differs from
\* current_number, met while an entry is open, is no entry boundary: its whole
\* stripped text, digits included, becomes one more line of the open entry,
\* the mapping gets no key from it and current_number stays as it is.
C2_OutOfSequenceFolded ==
    /\ [][(/\ Processing
            /\ LeadsWithNumber(CurText)
            /\ LeadingNumber(CurText) # current_number
            /\ EntryOpen)
           => /\ current_joke_text' = Append(current_joke_text, CurText)
              /\ jokes' = jokes
              /\ current_number' = current_number
              /\ first_number' = first_number]_vars
    /\ [](paragraphs = P4Input /\ Returned => jokes = P4Output)

C2_Witness == Returned /\ paragraphs = P4Input /\ jokes = P4Output

P2Input == << <<"1", " ", "a">>, <<"a">>, <<"2", " ", "b">> >>

P2Output == <<"1">> :> <<"a", "\n", "a">> @@ <<"2">> :> <<"b">>

\* C3: a non-blank paragraph with no leading number, met while an entry is
\* open, becomes the next line of that entry, and the text stored for an
\* entry is its lines, the remainder after the number first, joined by
\* newline.
C3_ContinuationLines ==
    /\ [][(/\ Processing
            /\ CurText # <<>>
            /\ ~LeadsWithNumber(CurText)
            /\ EntryOpen)
           => /\ current_joke_text' = Append(current_joke_text, CurText)
              /\ jokes' = jokes
              /\ current_number' = current_number]_vars
    /\ [](paragraphs = P2Input /\ Returned => jokes = P2Output)

C3_Witness == Returned /\ paragraphs = P2Input /\ jokes = P2Output

P3Input == << <<"1", " ", "a">>, <<>>, <<"a">> >>

P3Output == <<"1">> :> <<"a", "\n", "\n", "a">>

\* C4: a blank paragraph adds exactly one empty line to the accumulator when
\* an entry is open and only then; before any entry has started it changes
\* nothing.
C4_BlankParagraphs ==
    /\ [][(Processing /\ CurText = <<>>)
           => /\ current_joke_text' =
                    IF EntryOpen THEN Append(current_joke_text, <<>>)
                    ELSE current_joke_text
              /\ jokes' = jokes
              /\ current_number' = current_number
              /\ first_number' = first_number]_vars
    /\ [](paragraphs = P3Input /\ Returned => jokes = P3Output)

C4_Witness == Returned /\ paragraphs = P3Input /\ jokes = P3Output

RECURSIVE DropPreamble(_)
\* ps without the paragraphs that precede its first numbered paragraph
DropPreamble(ps) ==
    IF ps = <<>> \/ LeadsWithNumber(strip(Head(ps))) THEN ps
    ELSE DropPreamble(Tail(ps))

P5Input == << <<"a">>, <<"1", " ", "a">>, <<"2", " ", "b">> >>

P5Output == <<"1">> :> <<"a">> @@ <<"2">> :> <<"b">>

\* C5: whatever precedes the first paragraph with a leading number is
\* dropped: the mapping a call leaves is the one it leaves for the same input
\* without that prefix.
C5_PreambleDropped ==
    /\ Returned =>
          jokes = extract_jokes(jokes0, DropPreamble(paragraphs)).jokes
    /\ paragraphs = P5Input /\ Returned => jokes = P5Output

C5_Witness ==
    /\ Returned
    /\ paragraphs = P5Input
    /\ jokes = P5Output
    /\ DropPreamble(paragraphs) # paragraphs

NoNumberedParagraph ==
    \A j \in 1..Len(paragraphs) : ~LeadsWithNumber(strip(paragraphs[j]))

\* C6: when the input is empty or none of its paragraphs has a leading
\* number, the mapping stays empty, the final flush included.
C6_NoNumbering == NoNumberedParagraph => jokes = EmptyJokes /\ ~EntryOpen

C6_Witness ==
    /\ Returned
    /\ paragraphs = << <<"a">>, <<>>, <<"a">> >>
    /\ jokes = EmptyJokes

\* C7: no call raises: the write of a joke never meets current_number unset,
\* as the accumulator has lines only once a number has been recorded.
C7_NeverRaises ==
    /\ pc # "raised"
    /\ first_number = None <=> current_number = None
    /\ EntryOpen => current_number # None

C7_Witness ==
    /\ Returned
    /\ paragraphs = << <<"2">>, <<"1", "0", " ", "b">>, <<"a">> >>
    /\ DOMAIN jokes = {<<"2">>}

----------------------------------------------------------------------------
(* Properties of the calls of one crawl, which share self.jokes (SpecCrawl) *)

AloneOutput == extract_jokes(EmptyJokes, paragraphs).jokes

\* d.update(e)
Overlay(d, e) ==
    [k \in DOMAIN d \cup DOMAIN e |-> IF k \in DOMAIN e THEN e[k] ELSE d[k]]

\* C9 as stated: the mapping a call produces depends on its paragraphs only,
\* not on the calls before it.
C9_DependsOnInputOnly == Returned => jokes = AloneOutput

\* C9 as amended: the scan state of a call is its own (it is what the
\* paragraphs handled so far make it, whatever ran before), while the mapping
\* is shared: a call leaves the mapping it found, overlaid with the entries
\* its paragraphs alone determine.
C9_PrivateScanSharedMapping ==
    /\ pc = "loop" =>
          LET f == Loop(StartLocals(EmptyJokes),
                        SubSeq(paragraphs, 1, i - 1))
          IN  /\ first_number = f.first_number
              /\ current_number = f.current_number
              /\ current_joke_text = f.current_joke_text
    /\ Returned => jokes = Overlay(jokes0, AloneOutput)

C9_Witness ==
    /\ Returned
    /\ runs > 1
    /\ jokes # AloneOutput
    /\ jokes # jokes0
    /\ jokes = Overlay(jokes0, AloneOutput)

\* the step at hand writes a joke: the number expected is met while lines
\* are accumulated, or the loop is over with lines accumulated
Flushing ==
    /\ pc = "loop"
    /\ EntryOpen
    /\ \/ i > Len(paragraphs)
       \/ LeadsWithNumber(CurText) /\ LeadingNumber(CurText) = current_number

FlushKey == str(current_number - 1)

\* C10: a flush onto a key the mapping already has replaces that key's text
\* by the later one and leaves every other key with its value.
C10_LastWriterWins ==
    [][(Flushing /\ FlushKey \in DOMAIN jokes)
       => /\ DOMAIN jokes' = DOMAIN jokes
          /\ jokes'[FlushKey] = join(current_joke_text)
          /\ \A k \in DOMAIN jokes \ {FlushKey} : jokes'[k] = jokes[k]]_vars

C10_Witness ==
    /\ Returned
    /\ \E k \in DOMAIN jokes0 : jokes[k] # jokes0[k]
    /\ \E k \in DOMAIN jokes0 : jokes[k] = jokes0[k]

----------------------------------------------------------------------------
(* Termination and the bookkeeping of one call (SpecFair, Spec) *)

\* C11: the call terminates: it is one forward pass that handles each
\* paragraph exactly once, in the order supplied (after j steps the locals
\* are what the first j paragraphs, taken in order, make them), and then
\* returns after at most one further write.
C11_SinglePassTerminates ==
    /\ <>Returned
    /\ [][/\ paragraphs' = paragraphs
          /\ Processing => i' = i + 1 /\ pc' = "loop"
          /\ (pc = "loop" /\ ~Processing) =>
                /\ i' = i
                /\ pc' = "returned"
                /\ Len(written') <= Len(written) + 1]_vars
    /\ [](pc = "loop" =>
            LET f == Loop(StartLocals(EmptyJokes),
                          SubSeq(paragraphs, 1, i - 1))
            IN  /\ i \in 1..(Len(paragraphs) + 1)
                /\ current_joke_text = f.current_joke_text
                /\ current_number = f.current_number
                /\ jokes = f.jokes)
    /\ [](Returned => i = Len(paragraphs) + 1)

C11_Witness ==
    /\ Returned
    /\ paragraphs = << <<"1", "a">>, <<"2", "a">> >>
    /\ i = Len(paragraphs) + 1
    /\ written = << <<"1">>, <<"2">> >>

----------------------------------------------------------------------------
(* Properties of the JokeManager (SpecManager) *)

\* the step is the call op(number, ...) of the manager
Calls(op) == calls' = calls + 1 /\ last'.op = op

\* the joke d2 is the joke d but for its entry key
SameBut(d, d2, key) ==
    /\ DOMAIN d2 = DOMAIN d \cup {key}
    /\ \A k \in DOMAIN d \ {key} : d2[k] = d[k]

\* every joke of the store but that of number is as it was
OthersUnchanged(number) ==
    /\ DOMAIN manager_jokes' = DOMAIN manager_jokes
    /\ \A m \in DOMAIN manager_jokes \ {number} :
         manager_jokes'[m] = manager_jokes[m]

\* C12: mark_as_deleted never removes a joke: for a number in the store it
\* only sets that joke's status to "deleted" (every other key of the joke and
\* every other joke are unchanged), saves the store and returns True; for a
\* number not in the store it returns False and changes neither the store
\* nor the file
C12_MarkAsDeletedFrame ==
    [][Calls("mark_as_deleted") =>
         LET number == last'.number
         IN  IF number \in DOMAIN manager_jokes
             THEN /\ OthersUnchanged(number)
                  /\ SameBut(manager_jokes[number], manager_jokes'[number],
                             "status")
                  /\ manager_jokes'[number]["status"] = "deleted"
                  /\ saved_jokes' = manager_jokes'
                  /\ ret' = "True"
             ELSE /\ manager_jokes' = manager_jokes
                  /\ saved_jokes' = saved_jokes
                  /\ ret' = "False"]_vars

\* a translated, tagged joke was marked deleted next to another joke
C12_Witness ==
    /\ last.op = "mark_as_deleted"
    /\ ret = "True"
    /\ last.before # NoJoke
    /\ "tags" \in DOMAIN last.before
    /\ last.before["tags"] # <<>>
    /\ manager_jokes[last.number]["status"] = "deleted"
    /\ manager_jokes[last.number]["tags"] = last.before["tags"]
    /\ DOMAIN manager_jokes = Numbers
    /\ saved_jokes = manager_jokes

\* C13: restoring a deleted joke undoes its deletion: for any joke in the
\* store, mark_as_deleted followed by restore_joke leaves the joke in the
\* state it had before the deletion, its status included
C13_RestoreUndoesDeletion ==
    (/\ last.op = "restore_joke"
     /\ prev.op = "mark_as_deleted"
     /\ last.number = prev.number
     /\ prev.before # NoJoke)
    => /\ ret # "KeyError"
       /\ last.number \in DOMAIN manager_jokes
       /\ manager_jokes[last.number] = prev.before

\* the rating of a joke; a joke without one counts as 0
RatingOf(joke) == Get(joke, "rating", 0)

\* C14: update_rating changes a stored joke's rating by exactly +1 for a
\* like and exactly -1 for a dislike (a joke without a rating counts as 0)
\* and nothing else, so after any sequence of ratings the rating of a joke
\* equals its likes minus its dislikes; for a number not in the store it
\* returns False and changes nothing
C14_RatingIsLikesMinusDislikes ==
    /\ [][Calls("update_rating") =>
            LET number == last'.number
            IN  IF number \in DOMAIN manager_jokes
                THEN /\ OthersUnchanged(number)
                     /\ SameBut(manager_jokes[number],
                                manager_jokes'[number], "rating")
                     /\ manager_jokes'[number]["rating"] =
                          RatingOf(manager_jokes[number])
                            + (IF last'.arg = "like" THEN 1 ELSE -1)
                     /\ saved_jokes' = manager_jokes'
                     /\ ret' = "True"
                ELSE /\ manager_jokes' = manager_jokes
                     /\ saved_jokes' = saved_jokes
                     /\ ret' = "False"]_vars
    /\ [](\A number \in DOMAIN manager_jokes :
            RatingOf(manager_jokes[number]) =
              tally[number].likes - tally[number].dislikes)

\* the joke stored without a rating was liked twice and disliked once
C14_Witness ==
    /\ last.op = "update_rating"
    /\ ret = "True"
    /\ manager_jokes[last.number]["original"] = "o"
    /\ tally[last.number] = [likes |-> 2, dislikes |-> 1]
    /\ manager_jokes[last.number]["rating"] = 1

\* the number that opened the entry in progress
Opener == opened[Len(opened)]

\* C15: every flush, by a paragraph with the expected number or by the end
\* of the input, stores the joined accumulator under the decimal string of
\* the number that opened the entry being closed, which is current_number - 1
\* at that moment, and never under the number of the entry being opened; the
\* mapping changes by flushes only
C15_FlushKeyIsOpener ==
    /\ [][Flushing =>
            /\ opened # <<>>
            /\ FlushKey = str(Opener)
            /\ DOMAIN jokes' = DOMAIN jokes \cup {str(Opener)}
            /\ jokes'[str(Opener)] = join(current_joke_text)
            /\ \A k \in DOMAIN jokes \ {str(Opener)} : jokes'[k] = jokes[k]
            /\ written' = Append(written, str(Opener))
            /\ Processing =>
                 /\ LeadingNumber(CurText) # Opener
                 /\ str(LeadingNumber(CurText)) \notin DOMAIN jokes'
                 /\ opened' = Append(opened, LeadingNumber(CurText))]_vars
    /\ [][jokes' # jokes => Flushing]_vars

\* entries opened by 2 and 3 were closed under "2" and "3"
C15_Witness ==
    /\ Returned
    /\ paragraphs = << <<"2", " ", "a">>, <<"a">>, <<"3", " ", "b">> >>
    /\ opened = <<2, 3>>
    /\ DOMAIN jokes = {<<"2">>, <<"3">>}
    /\ jokes[<<"2">>] = <<"a", "\n", "a">>

\* the entries opened so far have consecutive numbers
OpenedInSequence ==
    \A j \in 1..(Len(opened) - 1) : opened[j + 1] = opened[j] + 1

\* C16: the accumulator is non-empty only while an entry is in progress (one
\* more entry opened than flushed), every flush closes the entry opened
\* before it, and every opened entry is flushed exactly once: at the return
\* the flushes are as many as the paragraphs that opened an entry, each entry
\* has its own key, and the accumulated text is in the mapping
C16_FlushedExactlyOnce ==
    /\ pc = "loop" =>
         /\ EntryOpen <=> Len(opened) = Len(written) + 1
         /\ ~EntryOpen <=> opened = <<>> /\ written = <<>>
    /\ Len(written) <= Len(opened)
    /\ \A j \in 1..Len(written) : written[j] = str(opened[j])
    /\ OpenedInSequence
    /\ Returned =>
         /\ Len(written) = Len(opened)
         /\ DOMAIN jokes = {str(opened[j]) : j \in 1..Len(opened)}
         /\ Cardinality(DOMAIN jokes) = Len(opened)
         /\ EntryOpen => jokes[str(Opener)] = join(current_joke_text)
         /\ EntryOpen <=> opened # <<>>

\* two entries were opened and two flushes made, the second at the end
C16_Witness ==
    /\ Returned
    /\ paragraphs = << <<"1", " ", "a">>, <<>>, <<"2", " ", "b">> >>
    /\ opened = <<1, 2>>
    /\ written = << <<"1">>, <<"2">> >>
    /\ jokes[<<"1">>] = <<"a", "\n">>

\* the paragraphs before the i-th have no leading number
NoNumberBefore ==
    \A j \in 1..(i - 1) : ~LeadsWithNumber(strip(paragraphs[j]))

\* the step opens an entry
Opening == Len(opened') = Len(opened) + 1

\* C17: first_number is set exactly once, by the first paragraph with a
\* leading number, and never changes afterwards; that paragraph opens an
\* entry whatever its number is, current_number being initialised to it, and
\* it is the only paragraph that opens an entry without carrying the
\* current_number established before it
C17_FirstNumberSetOnce ==
    /\ [][first_number # None => first_number' = first_number]_vars
    /\ [](pc = "loop" => (first_number = None <=> NoNumberBefore))
    /\ [][(Processing /\ first_number = None /\ LeadsWithNumber(CurText)) =>
            /\ first_number' = LeadingNumber(CurText)
            /\ current_number' = LeadingNumber(CurText) + 1
            /\ Opening
            /\ opened' = <<LeadingNumber(CurText)>>
            /\ current_joke_text' = <<strip(re_match(CurText).group2)>>]_vars
    /\ [][(Processing /\ first_number = None /\ ~LeadsWithNumber(CurText)) =>
            first_number' = None /\ ~Opening]_vars
    /\ [][(Opening /\ first_number # None) =>
            /\ Processing
            /\ LeadsWithNumber(CurText)
            /\ LeadingNumber(CurText) = current_number]_vars
    /\ [](opened # <<>> => first_number = opened[1])

\* the first numbered paragraph carried 3 and opened an entry; a later one
\* carrying 1 did not, and first_number is still 3
C17_Witness ==
    /\ Returned
    /\ paragraphs = << <<"a">>, <<"3", " ", "a">>, <<"1", " ", "b">> >>
    /\ first_number = 3
    /\ opened = <<3>>

\* the paragraph at hand carries a number other than current_number while no
\* entry is in progress (the case C18 is about)
OffSequenceWithoutEntry ==
    /\ Processing
    /\ LeadsWithNumber(CurText)
    /\ first_number # None
    /\ LeadingNumber(CurText) # current_number
    /\ ~EntryOpen

\* no call gets there: the first numbered paragraph sets current_number to
\* its own number and opens an entry, and from then on the accumulator is
\* never empty when a paragraph is read
NeverOffSequenceWithoutEntry == ~OffSequenceWithoutEntry

----------------------------------------------------------------------------
(* Pages that cannot be used (SpecCrawl) *)

\* the step handles a page id without entering the loop of extract_jokes
PageUnusable == page' = page + 1 /\ runs' = runs

\* C19: crawl_all_pages handles the page ids one at a time in list order (a
\* page is taken up only when the one before it is done with, and it is the
\* next of the list); a page that cannot be used leaves the mapping exactly
\* as it was, and whenever a page is done with, however it ended, and a page
\* id is left, the next page can be crawled
C19_UnusablePageSkipped ==
    /\ [][page' # page => page' = page + 1 /\ pc # "loop"]_vars
    /\ [][PageUnusable => jokes' = jokes /\ pc' # "loop"]_vars
    /\ [](page \in 0..MaxPages)
    /\ []((pc # "loop" /\ page < MaxPages) => ENABLED ExtractBegin)

\* the first page could not be used and the second was crawled into the
\* mapping
C19_Witness ==
    /\ page = 2
    /\ runs = 1
    /\ pc = "returned"
    /\ jokes # EmptyJokes

----------------------------------------------------------------------------
(* Tags (SpecManager) *)

\* the tag list of a joke
TagsOf(joke) == Get(joke, "tags", <<>>)

NoDuplicate(tags) ==
    \A j, k \in 1..Len(tags) : tags[j] = tags[k] => j = k

\* C20: add_tag and remove_tag never fail on a joke that is in the store,
\* one created by get_joke_versions included: add_tag appends the tag and
\* returns True only if the joke does not carry it, remove_tag removes it and
\* returns True only if the joke carries it, otherwise each returns False and
\* changes nothing; so no tag list ever holds a duplicate
C20_TagsNeverFail ==
    /\ []((last.op \in {"add_tag", "remove_tag"}
           /\ last.before # NoJoke) => ret # "KeyError")
    /\ [][(Calls("add_tag") /\ last'.number \in DOMAIN manager_jokes) =>
            LET number == last'.number
                tags == TagsOf(manager_jokes[number])
            IN  IF ~InList(tags, last'.arg)
                THEN /\ ret' = "True"
                     /\ OthersUnchanged(number)
                     /\ SameBut(manager_jokes[number],
                                manager_jokes'[number], "tags")
                     /\ manager_jokes'[number]["tags"] =
                          Append(tags, last'.arg)
                     /\ saved_jokes' = manager_jokes'
                ELSE /\ ret' = "False"
                     /\ manager_jokes' = manager_jokes
                     /\ saved_jokes' = saved_jokes]_vars
    /\ [][(Calls("remove_tag") /\ last'.number \in DOMAIN manager_jokes) =>
            LET number == last'.number
                tags == TagsOf(manager_jokes[number])
            IN  IF InList(tags, last'.arg)
                THEN /\ ret' = "True"
                     /\ OthersUnchanged(number)
                     /\ SameBut(manager_jokes[number],
                                manager_jokes'[number], "tags")
                     /\ ~InList(manager_jokes'[number]["tags"], last'.arg)
                     /\ Len(manager_jokes'[number]["tags"]) = Len(tags) - 1
                     /\ saved_jokes' = manager_jokes'
                ELSE /\ ret' = "False"
                     /\ manager_jokes' = manager_jokes
                     /\ saved_jokes' = saved_jokes]_vars
    /\ [](\A number \in DOMAIN manager_jokes :
            NoDuplicate(TagsOf(manager_jokes[number])))

----------------------------------------------------------------------------
(* The keys of one run among the runs of a crawl (SpecCrawl) *)

\* the keys the run at hand has written
WrittenKeys == {written[j] : j \in 1..Len(written)}

\* C21: within one run current_number only grows, by exactly 1 per opened
\* entry, so the keys the run writes are the contiguous range
\* str(first_number) .. str(current_number - 1), written in increasing order
\* and none of them twice in the run; a write onto a key the mapping has
\* hits a key an earlier run left
C21_ContiguousKeys ==
    /\ [](first_number = None =>
            /\ current_number = None
            /\ opened = <<>>
            /\ written = <<>>)
    /\ [](first_number # None =>
            /\ current_number = first_number + Len(opened)
            /\ Len(written) <= Len(opened)
            /\ \A j \in 1..Len(written) : written[j] = str(first_number + j - 1)
            /\ Returned => Len(written) = current_number - first_number)
    /\ [](pc \in {"loop", "returned"} =>
            DOMAIN jokes = DOMAIN jokes0 \cup WrittenKeys)
    /\ [][(runs' = runs /\ current_number # None) =>
            /\ current_number' \in {current_number, current_number + 1}
            /\ current_number' = current_number + 1 <=> Opening]_vars
    /\ [][Flushing =>
            /\ FlushKey \notin WrittenKeys
            /\ FlushKey \in DOMAIN jokes => FlushKey \in DOMAIN jokes0]_vars

\* the second run wrote the keys "1" and "2" in that order, "1" onto the
\* key the first run had left
C21_Witness ==
    /\ Returned
    /\ runs = 2
    /\ first_number = 1
    /\ current_number = 3
    /\ written = << <<"1">>, <<"2">> >>
    /\ DOMAIN jokes0 = {<<"1">>}

----------------------------------------------------------------------------
(* The accumulator after the first entry (Spec) *)

\* the paragraph at hand has nothing after its number
NumberAlone ==
    /\ Processing
    /\ LeadsWithNumber(CurText)
    /\ strip(re_match(CurText).group2) = <<>>

\* C22: once the first entry has been opened the accumulator is never empty
\* again in the run: at every paragraph boundary current_number is set if and
\* only if the accumulator is non-empty. An entry opened by a paragraph with
\* nothing after its number holds one empty line, and a flush of it writes
\* its own key, with the empty text
C22_NeverEmptyAgain ==
    /\ [](pc \in {"loop", "returned"} =>
            (current_number # None <=> EntryOpen))
    /\ [][EntryOpen => EntryOpen']_vars
    /\ [](opened # <<>> => EntryOpen)
    /\ [][(NumberAlone /\ Opening) => current_joke_text' = << <<>> >>]_vars
    /\ [][(Flushing /\ current_joke_text = << <<>> >>) =>
            /\ str(Opener) \notin DOMAIN jokes
            /\ DOMAIN jokes' = DOMAIN jokes \cup {str(Opener)}
            /\ jokes'[str(Opener)] = <<>>]_vars

\* the entry opened by "2" alone was closed under its own key by "3 a"
C22_Witness ==
    /\ Returned
    /\ paragraphs = << <<"2">>, <<"3", " ", "a">> >>
    /\ DOMAIN jokes = {<<"2">>, <<"3">>}
    /\ jokes[<<"2">>] = <<>>
    /\ jokes[<<"3">>] = <<"a">>

----------------------------------------------------------------------------
(* Looking a joke up (SpecManager) *)

\* C23: looking up a joke by number is read-only: get_joke_versions with a
\* number that is not in the store leaves the set of stored jokes unchanged
\* and hands the view no joke to show, so the number is reported as not
\* found, and add_version for that number still returns False afterwards
C23_LookupReadOnly ==
    /\ [][(Calls("get_joke_versions")
           /\ last'.number \notin DOMAIN manager_jokes) =>
            /\ DOMAIN manager_jokes' = DOMAIN manager_jokes
            /\ manager_jokes' = manager_jokes
            /\ ret' # "joke"]_vars
    /\ [][(/\ Calls("add_version")
           /\ last.op = "get_joke_versions"
           /\ last.before = NoJoke
           /\ last.number = last'.number) => ret' = "False"]_vars

----------------------------------------------------------------------------
(* Deleting through the UI (SpecSession) *)

\* the step is a delete click on joke number
DeleteClick(number) ==
    \/ Calls("click_delete") /\ last'.number = number
    \/ confirm_delete'[number] /\ ~confirm_delete[number]

\* C24: deleting a joke through the UI always takes two delete clicks: a
\* delete click marks the joke deleted only if an earlier click, made since
\* the joke was last restored or first shown, set its confirmation flag; the
\* first delete click on a joke since then only asks for confirmation and
\* leaves its status unchanged
C24_TwoClicksToDelete ==
    [][\A number \in Numbers :
         (DeleteClick(number) /\ ~asked[number]) =>
            /\ manager_jokes' = manager_jokes
            /\ saved_jokes' = saved_jokes
            /\ confirm_delete'[number]
            /\ asked'[number]]_vars

====
